---- MODULE Spec2Model ----
(***************************************************************************)
(* Model of admin/acceptance.py: the acceptance-test orchestrator.         *)
(*                                                                         *)
(* One run of main() is modelled.  Every action is one reactor turn: the   *)
(* callback fired by the end of an awaited operation, together with all    *)
(* the generator code (start_nodes, the workflow, main) that runs          *)
(* synchronously in that turn until the next suspension or until main      *)
(* ends.  Operations that the code starts but does not wait for keep      *)
(* running and end in actions of their own.  A second specification calls  *)
(* the runner's start_nodes and stop_nodes without main.                   *)
(***************************************************************************)
EXTENDS Integers, Sequences, FiniteSets, TLC

\* ---------------------------------------------------------------- bounds
\* Test processes exit with a code in 1..MaxExit when they fail.
MaxExit == 3
\* Number of distinct addresses the cloud provider can hand out.
MaxAddr == 3
\* Largest node_count handed to start_nodes when it is called directly.
MaxCount == 3
\* Number of start_nodes calls made on one runner when called directly.
MaxStarts == 2
\* Number of stop_nodes calls made on one runner when called directly.
MaxStops == 2

\* ----------------------------------------------------- program constants
\* node_count asked for by do_client_acceptance_tests.
ClientNodeCount == 1
\* node_count asked for by do_cluster_acceptance_tests.
ClusterNodeCount == 2
\* The only node_count VagrantRunner.start_nodes accepts.
VagrantNodeCount == 2

\* Addresses are tuples of octets.
NODE_ADDRESSES == <<<<172, 16, 255, 240>>, <<172, 16, 255, 241>>>>
DISTRIBUTIONS == {"centos-7", "fedora-20", "ubuntu-14.04"}
CLOUD_PROVIDERS == {"rackspace"}
PROVIDERS == {"vagrant"} \cup CLOUD_PROVIDERS

\* Addresses handed out by the provisioner's create_node.
CloudAddresses == {<<10, 0, 0, a>> : a \in 1..MaxAddr}

\* ------------------------------------------------------------ input sets
None == "None"
\* A distribution whose vagrant-acceptance-targets directory does not exist.
OtherDistribution == "other-distro"
DistributionInputs == {None, "centos-7", OtherDistribution}
ProviderInputs == {"vagrant", "rackspace", "bogus"}
\* metadata.creator of the config file: missing, or a string of characters.
NoCreator == <<"missing">>
CreatorInputs == {NoCreator, <<>>, <<"a", "1">>, <<"a", "-">>}
AlnumChars == {"a", "1"}
TestTypes == {"client", "cluster"}
\* The trailing command-line arguments (test selectors).
TrialArgsInputs == {<<>>, <<"suiteA", "suiteB">>}

OptionInputs ==
    [distribution : DistributionInputs,
     provider : ProviderInputs,
     type : TestTypes,
     stanza : BOOLEAN,
     creator : CreatorInputs,
     variants : BOOLEAN,
     keep : BOOLEAN,
     trial_args : TrialArgsInputs]

\* ---------------------------------------------------------------- values
\* A Python value that main can hold in `result`.
IntValue(n) == [kind |-> "int", n |-> n]
\* The Effect object returned by sequence([...]); it is not a number.
EffectObject == [kind |-> "Effect", n |-> 0]
Unset == [kind |-> "unset", n |-> 0]

\* Python's `value != 0`.
NotZero(v) == ~(v.kind = "int" /\ v.n = 0)

\* How a spawned test process ends: ProcessDone, ProcessTerminated with an
\* exit code, ProcessTerminated by a signal (exitCode None), or another error.
Done == [how |-> "done", code |-> 0]
Exit(n) == [how |-> "exit", code |-> n]
Signal == [how |-> "signal", code |-> 0]
OtherError == [how |-> "error", code |-> 0]
Outcomes == {Done, Signal, OtherError} \cup {Exit(n) : n \in 1..MaxExit}
Running == [how |-> "running", code |-> 0]
Idle == [how |-> "idle", code |-> 0]

\* What a generator or a Deferred ends with.
Returns(v) == [raised |-> FALSE, err |-> "", value |-> v]
Raises(e) == [raised |-> TRUE, err |-> e, value |-> Unset]
Pending == [raised |-> FALSE, err |-> "pending", value |-> Unset]

VARIABLES
    options,      \* the parsed command line (fixed for the run)
    driver,       \* "main": main() runs; "direct": the runner's methods are
                  \* called directly
    pc,           \* "init", "running" (main suspended in the workflow), "done"
    awaiting,     \* the operation the workflow is suspended on
    runner,       \* "none", "vagrant" or "libcloud"
    node_count,   \* argument of the latest start_nodes call
    start_calls,  \* number of runner.start_nodes invocations
    index,        \* loop index of start_nodes
    node,         \* start_nodes' local `node` awaiting its host-key cleanup
    nodes,        \* LibcloudRunner.nodes, the tracked list
    cloud,        \* instances create_node has created and nobody destroyed
    pool,         \* the list the latest start_nodes call returned; empty
                  \* until it returns
    provision,    \* status of each per-node provisioning task
    proc,         \* state of each test process
    argv,         \* command line of each spawned test process
    ops,          \* status of each operation the code waits for
    start_state,  \* start_nodes: "no" (not ended), "returned" or "failed"
    workflow,     \* what the workflow's Deferred fired with
    result,       \* main's `result`
    stop_calls,   \* number of runner.stop_nodes invocations
    destroy_log,  \* nodes on which destroy() was attempted, in order
    stop_tasks,   \* the `vagrant destroy -f` spawned by each call of
                  \* VagrantRunner.stop_nodes, in call order
    notice,       \* the "--keep specified" notice was printed
    final         \* what main finally raises

vars == <<options, driver, pc, awaiting, runner, node_count, start_calls,
          index, node, nodes, cloud, pool, provision, proc, argv, ops,
          start_state, workflow, result, stop_calls, destroy_log, stop_tasks,
          notice, final>>

mainVars == <<workflow, result, stop_calls, destroy_log, stop_tasks, notice,
              final>>

ProcNames == {"trial_cli", "client_installation_test", "trial"}

NoFinal == [kind |-> "none", arg |-> Unset, err |-> ""]
SystemExit(v) == [kind |-> "SystemExit", arg |-> v, err |-> ""]
Error(e) == [kind |-> "error", arg |-> Unset, err |-> e]

NoNode == [name |-> <<>>, address |-> <<>>]

\* The operations that are yielded inside a loop over nodes: one per index.
LoopOps == {"vagrant_remove_known_host", "pull_docker_images",
            "remove_known_host"}
SingleOps == {"vagrant_destroy", "vagrant_up", "install_cli", "provision",
              "configure_cluster", "trial"}
\* An awaited operation: its name and the loop index it belongs to.
OpKey(op, i) == IF op \in LoopOps THEN <<op, i>> ELSE <<op, 0>>
OpKeys == {<<op, 0>> : op \in SingleOps}
          \cup {<<op, i>> : op \in LoopOps, i \in 0..MaxCount}

\* ------------------------------------------------------- pure functions
\* str.isalnum(): every character alphanumeric and at least one character.
isalnum(s) == Len(s) > 0 /\ \A i \in 1..Len(s) : s[i] \in AlnumChars

\* VagrantRunner.__init__: the runner, or the UsageError it raises.
VagrantRunnerInit(o) ==
    IF o.distribution \notin DISTRIBUTIONS THEN "UsageError"
    ELSE IF o.variants THEN "UsageError"
    ELSE "vagrant"

\* A LibcloudRunner.__init__ that does not look at the creator's characters.
LibcloudRunnerInitUnchecked(o) ==
    IF o.creator = NoCreator THEN "UsageError" ELSE "libcloud"

\* LibcloudRunner.__init__: the runner, or the UsageError it raises.
LibcloudRunnerInit(o) ==
    IF o.creator = NoCreator THEN "UsageError"
    ELSE IF ~isalnum(o.creator) THEN "UsageError"
    ELSE "libcloud"

\* RunOptions.postOptions: the runner it constructs, or "UsageError".
postOptions(o) ==
    IF o.distribution = None THEN "UsageError"
    ELSE IF o.provider \notin PROVIDERS THEN "UsageError"
    ELSE IF o.provider \in CLOUD_PROVIDERS
         THEN IF ~o.stanza THEN "UsageError" ELSE LibcloudRunnerInit(o)
         ELSE VagrantRunnerInit(o)

\* A check_result that reports every failed process as status 1.
check_result_flat(f) ==
    IF f.how # "exit" /\ f.how # "signal" THEN Raises("Error")
    ELSE IF f.how = "exit" THEN Returns(IntValue(1))
    ELSE Raises("ProcessTerminated")

\* check_result(f), the errback of the test processes.
check_result(f) ==
    IF f.how # "exit" /\ f.how # "signal" THEN Raises("Error")
    ELSE IF f.how = "exit" THEN Returns(IntValue(f.code))
    ELSE Raises("ProcessTerminated")

\* run(...).addCallbacks(callback=lambda _: 0, errback=check_result).
addCallbacks(o) == IF o = Done THEN Returns(IntValue(0)) ELSE check_result(o)

\* sequence([...]) builds an Effect (VagrantRunner.provision returns
\* sequence([]) as "an Effect", which the workflow hands to perform).
\* run_client_tests returns it unperformed and the workflow yields it: a
\* yielded value that is not a Deferred comes straight back as the result.
sequence(legs) == EffectObject

\* An aggregate that waits for every child and never reports a failure.
parallel_lenient(statuses) ==
    IF \A i \in DOMAIN statuses : statuses[i] \in {"ok", "failed"} THEN "ok"
    ELSE "pending"

\* The aggregate of parallel([...]) performed by the Twisted dispatcher: it
\* fails as soon as one child fails and succeeds when all have succeeded.
parallel(statuses) ==
    IF \E i \in DOMAIN statuses : statuses[i] = "failed" THEN "failed"
    ELSE IF \A i \in DOMAIN statuses : statuses[i] = "ok" THEN "ok"
    ELSE "pending"

\* The loop of LibcloudRunner.stop_nodes from position i; destroy() raises
\* for the positions in failing.
RECURSIVE stop_nodes_loop(_, _, _)
stop_nodes_loop(ns, i, failing) ==
    IF i > Len(ns) THEN [attempted |-> <<>>, destroyed |-> {}, raised |-> FALSE]
    ELSE LET rest == stop_nodes_loop(ns, i + 1, failing)
         IN [attempted |-> <<ns[i]>> \o rest.attempted,
             destroyed |-> (IF i \in failing THEN {} ELSE {ns[i]})
                           \cup rest.destroyed,
             raised |-> rest.raised]

\* A stop_nodes whose loop is left by the first destroy() that raises.
RECURSIVE stop_nodes_short_circuit(_, _, _)
stop_nodes_short_circuit(ns, i, failing) ==
    IF i > Len(ns) THEN [attempted |-> <<>>, destroyed |-> {}, raised |-> FALSE]
    ELSE IF i \in failing
    THEN [attempted |-> <<ns[i]>>, destroyed |-> {}, raised |-> TRUE]
    ELSE LET rest == stop_nodes_short_circuit(ns, i + 1, failing)
         IN [attempted |-> <<ns[i]>> \o rest.attempted,
             destroyed |-> {ns[i]} \cup rest.destroyed,
             raised |-> rest.raised]

\* A stop_nodes that attempts every node and then raises if a destroy() failed.
LibcloudStopNodesRaisingLast(ns, failing) ==
    [attempted |-> ns,
     destroyed |-> {ns[i] : i \in (1..Len(ns)) \ failing},
     raised |-> failing \cap (1..Len(ns)) # {}]

LibcloudStopNodesShortCircuit(ns, failing) ==
    stop_nodes_short_circuit(ns, 1, failing)

\* LibcloudRunner.stop_nodes.
LibcloudStopNodes(ns, failing) == stop_nodes_loop(ns, 1, failing)

\* A finally that keeps the nodes whenever --keep is given.
TeardownUnlessKeep(res, keep) == ~keep

\* main's finally: the nodes are deleted unless the tests failed and the
\* user asked to keep them.
Teardown(res, keep) == ~(NotZero(res) /\ keep)

\* main's `result` once the workflow ended with w: `except: result = 1`.
MainResult(w) == IF w.raised THEN IntValue(1) ELSE w.value

\* A main that turns the workflow's error into SystemExit(result).
MainRaisesSystemExit(w, res) == SystemExit(res)

\* What main raises at its end: the workflow's error re-raised by the bare
\* `raise`, or SystemExit(result).
MainRaises(w, res) == IF w.raised THEN Error(w.err) ELSE SystemExit(res)

\* self.nodes after the host-key cleanup of `n` ended (ok or not).
TrackNode(tracked, n, ok) == IF ok THEN Append(tracked, n) ELSE tracked

\* The nodes VagrantRunner.start_nodes returns.
VagrantNodes ==
    [i \in 1..Len(NODE_ADDRESSES) |->
        [name |-> <<"vagrant", i>>, address |-> NODE_ADDRESSES[i]]]

\* A start_nodes that only rejects counts above the size of the pool.
VagrantAcceptsUpTo(count) == count <= VagrantNodeCount

\* VagrantRunner.start_nodes: `if node_count != 2: raise`.
VagrantAccepts(count) == count = VagrantNodeCount

\* The command run_cluster_tests spawns.
ClusterTrialCommand(trial_args) ==
    <<"trial">> \o (IF trial_args = <<>> THEN <<"flocker.acceptance">>
                    ELSE trial_args)

\* The command of the local leg of run_client_tests; trial_args is not
\* passed to run_client_tests.
ClientTrialCommand(trial_args) == <<"trial", "flocker.cli">>

\* Workflows that all ask for two nodes.
NodeCountAlwaysTwo(type) == ClusterNodeCount

\* node_count each workflow passes to start_nodes.
NodeCountOf(type) == IF type = "client" THEN ClientNodeCount ELSE ClusterNodeCount

\* ---------------------------------------------------------------- Init
Init ==
    /\ options \in OptionInputs
    /\ driver = "main"
    /\ pc = "init"
    /\ awaiting = "none"
    /\ runner = "none"
    /\ node_count = 0
    /\ start_calls = 0
    /\ index = 0
    /\ node = NoNode
    /\ nodes = <<>>
    /\ cloud = {}
    /\ pool = <<>>
    /\ provision = <<>>
    /\ proc = [p \in ProcNames |-> Idle]
    /\ argv = [p \in ProcNames |-> <<>>]
    /\ ops = [k \in OpKeys |-> "idle"]
    /\ start_state = "no"
    /\ workflow = Pending
    /\ result = Unset
    /\ stop_calls = 0
    /\ destroy_log = <<>>
    /\ stop_tasks = <<>>
    /\ notice = FALSE
    /\ final = NoFinal

\* ------------------------------------------------- the end of main
\* The workflow ended with w (a returned value or a raised error): main's
\* except / finally / raise SystemExit, run in the same turn.  `run` is the
\* runner, `tracked` is self.nodes and `instances` the cloud at that moment.
MainEnds(w, run, tracked, instances) ==
    LET res == MainResult(w)
        teardown == Teardown(res, options.keep)
        ending == MainRaises(w, res)
    IN /\ workflow' = w
       /\ result' = res
       /\ pc' = "done"
       /\ awaiting' = "none"
       /\ start_state' = IF start_state = "no" THEN "failed" ELSE start_state
       /\ stop_calls' = IF teardown THEN stop_calls + 1 ELSE stop_calls
       /\ notice' = (~teardown /\ options.keep)
       /\ IF teardown /\ run = "vagrant"
          THEN \* VagrantRunner.stop_nodes returns the Deferred of the
               \* destroy command; main does not yield it
               /\ stop_tasks' = Append(stop_tasks, "running")
               /\ UNCHANGED destroy_log
               /\ cloud' = instances
               /\ final' = ending
          ELSE IF teardown
          THEN \E failing \in SUBSET (1..Len(tracked)) :
                  LET s == LibcloudStopNodes(tracked, failing)
                  IN /\ destroy_log' = destroy_log \o s.attempted
                     /\ cloud' = instances \ s.destroyed
                     /\ UNCHANGED stop_tasks
                     \* an error raised inside finally replaces `ending`
                     /\ final' = IF s.raised THEN Error("DestroyError")
                                 ELSE ending
          ELSE /\ UNCHANGED <<destroy_log, stop_tasks>>
               /\ cloud' = instances
               /\ final' = ending

\* The operations start_nodes waits for.
StartNodesOps == {"vagrant_destroy", "vagrant_up", "vagrant_remove_known_host",
                  "pull_docker_images", "remove_known_host"}

\* The workflow suspends on operation op; main stays suspended too.
Suspends(op) ==
    /\ pc' = "running"
    /\ awaiting' = op
    /\ start_state' = IF op \in StartNodesOps THEN "no" ELSE "returned"
    /\ UNCHANGED mainVars

\* ------------------------------------------------ workflow continuations
\* start_nodes returned ns to the workflow, which runs to its next yield.
WorkflowGotNodes(ns, run) ==
    /\ pool' = ns
    /\ UNCHANGED <<proc, argv>>
    /\ IF options.type = "client"
       THEN /\ Suspends("install_cli")
            /\ UNCHANGED provision
       ELSE IF run = "vagrant"
       THEN \* VagrantRunner.provision is sequence([]): nothing to wait for
            /\ Suspends("configure_cluster")
            /\ UNCHANGED provision
       ELSE /\ provision' = [i \in 1..Len(ns) |-> "running"]
            /\ Suspends("provision")

\* start_nodes was called directly and raised e.
DirectFails(e, instances) ==
    /\ pc' = "done"
    /\ awaiting' = "none"
    /\ start_state' = "failed"
    /\ final' = Error(e)
    /\ cloud' = instances
    /\ UNCHANGED <<workflow, result, stop_calls, notice, stop_tasks,
                   destroy_log>>

\* start_nodes was called directly and returned ns.
DirectReturns(ns) ==
    /\ pool' = ns
    /\ pc' = "done"
    /\ awaiting' = "none"
    /\ start_state' = "returned"
    /\ UNCHANGED <<proc, argv, provision>>
    /\ UNCHANGED mainVars

\* start_nodes raises e: the error reaches its caller.
StartFails(e, run, tracked, instances) ==
    IF driver = "main" THEN MainEnds(Raises(e), run, tracked, instances)
    ELSE DirectFails(e, instances)

\* start_nodes returns ns to its caller.
StartReturns(ns, run) ==
    IF driver = "main" THEN WorkflowGotNodes(ns, run) ELSE DirectReturns(ns)

\* The operation awaited so far ended (ok or not) and the operation awaited
\* next, if any, is started.
OpsStep(ok) ==
    LET ended == IF awaiting = "none" THEN ops
                 ELSE [ops EXCEPT ![OpKey(awaiting, index)] =
                                      IF ok THEN "ok" ELSE "failed"]
    IN ops' = IF awaiting' = "none" THEN ended
              ELSE [ended EXCEPT ![OpKey(awaiting', index')] = "running"]

\* LibcloudRunner.start_nodes at the top of its loop with index i, the
\* tracked list being `tracked`.
LibcloudLoop(i, count, tracked) ==
    /\ index' = i
    /\ nodes' = tracked
    /\ IF i >= count
       THEN /\ node' = NoNode
            /\ cloud' = cloud
            /\ StartReturns(tracked, "libcloud")
       ELSE \/ \* create_node raises
               /\ node' = NoNode
               /\ pool' = <<>>
               /\ UNCHANGED <<provision, proc, argv>>
               /\ StartFails("CreateNodeError", "libcloud", tracked, cloud)
            \/ \* create_node returns a node with an address that no
               \* instance in the cloud and no tracked node holds
               \E a \in CloudAddresses \ ({n.address : n \in cloud} \cup
                           {tracked[k].address : k \in DOMAIN tracked}) :
                  LET new == [name |-> <<"acceptance-test", options.creator, i>>,
                              address |-> a]
                  IN /\ node' = new
                     /\ cloud' = cloud \cup {new}
                     /\ pool' = <<>>
                     /\ UNCHANGED <<provision, proc, argv>>
                     /\ Suspends("remove_known_host")

\* runner.start_nodes(reactor, count) is called on runner r and runs to its
\* first yield.
CallStartNodes(r, count) ==
    /\ node_count' = count
    /\ start_calls' = start_calls + 1
    /\ IF r = "vagrant"
       THEN /\ UNCHANGED <<index, node, nodes, provision, proc, argv>>
            /\ pool' = <<>>
            /\ IF ~VagrantAccepts(count)
               THEN StartFails("NotImplementedError", "vagrant", <<>>, cloud)
               ELSE /\ Suspends("vagrant_destroy")
                    /\ UNCHANGED cloud
       ELSE LibcloudLoop(0, count, nodes)

\* --------------------------------------------------------------- actions
\* main is called: options are parsed, the runner is constructed and the
\* workflow runs up to its first suspension (inside start_nodes).
Main ==
    /\ driver = "main"
    /\ pc = "init"
    /\ UNCHANGED <<options, driver>>
    /\ LET r == postOptions(options)
           count == NodeCountOf(options.type)
       IN IF r = "UsageError"
          THEN /\ pc' = "done"
               /\ final' = SystemExit(IntValue(1))
               /\ UNCHANGED <<awaiting, runner, node_count, start_calls, index, node, nodes,
                              cloud, pool, provision, proc, argv, start_state,
                              workflow, result, stop_calls, destroy_log,
                              stop_tasks, notice>>
          ELSE /\ runner' = r
               /\ CallStartNodes(r, count)
    /\ OpsStep(TRUE)

\* A start_nodes that boots the pool whether or not the destroy succeeded.
VagrantDestroyEndedIgnoringFailure(ok) ==
    /\ pc = "running" /\ awaiting = "vagrant_destroy"
    /\ UNCHANGED <<options, driver, runner, node_count, start_calls, index, node, nodes,
                   pool, provision, proc, argv>>
    /\ Suspends("vagrant_up") /\ UNCHANGED cloud
    /\ OpsStep(ok)

\* VagrantRunner.start_nodes: `vagrant destroy -f` ended.
VagrantDestroyEnded(ok) ==
    /\ pc = "running" /\ awaiting = "vagrant_destroy"
    /\ UNCHANGED <<options, driver, runner, node_count, start_calls, index, node, nodes,
                   pool, provision, proc, argv>>
    /\ IF ok
       THEN Suspends("vagrant_up") /\ UNCHANGED cloud
       ELSE StartFails("ProcessError", runner, nodes, cloud)
    /\ OpsStep(ok)

\* A start_nodes whose loop logs in without removing the known host first.
VagrantUpEndedNoCleanup(ok) ==
    /\ pc = "running" /\ awaiting = "vagrant_up"
    /\ UNCHANGED <<options, driver, runner, node_count, start_calls, node, nodes, pool,
                   provision, proc, argv>>
    /\ IF ok
       THEN /\ index' = 0
            /\ Suspends("pull_docker_images")
            /\ UNCHANGED cloud
       ELSE /\ UNCHANGED index
            /\ StartFails("ProcessError", runner, nodes, cloud)
    /\ OpsStep(ok)

\* VagrantRunner.start_nodes: `vagrant up` ended; the loop over
\* NODE_ADDRESSES starts.
VagrantUpEnded(ok) ==
    /\ pc = "running" /\ awaiting = "vagrant_up"
    /\ UNCHANGED <<options, driver, runner, node_count, start_calls, node, nodes, pool,
                   provision, proc, argv>>
    /\ IF ok
       THEN /\ index' = 0
            /\ Suspends("vagrant_remove_known_host")
            /\ UNCHANGED cloud
       ELSE /\ UNCHANGED index
            /\ StartFails("ProcessError", runner, nodes, cloud)
    /\ OpsStep(ok)

\* VagrantRunner.start_nodes: remove_known_host of the current address ended.
VagrantRemoveKnownHostEnded(ok) ==
    /\ pc = "running" /\ awaiting = "vagrant_remove_known_host"
    /\ UNCHANGED <<options, driver, runner, node_count, start_calls, index, node, nodes,
                   pool, provision, proc, argv>>
    /\ IF ok
       THEN Suspends("pull_docker_images") /\ UNCHANGED cloud
       ELSE StartFails("ProcessError", runner, nodes, cloud)
    /\ OpsStep(ok)

\* VagrantRunner.start_nodes: the remote image pull on the current address
\* ended; next address, or the nodes are returned to the caller.
VagrantPullEnded(ok) ==
    /\ pc = "running" /\ awaiting = "pull_docker_images"
    /\ UNCHANGED <<options, driver, runner, node_count, start_calls, node, nodes>>
    /\ IF ~ok
       THEN /\ UNCHANGED <<index, pool, provision, proc, argv>>
            /\ StartFails("RemoteError", runner, nodes, cloud)
       ELSE /\ index' = index + 1
            /\ UNCHANGED cloud
            /\ IF index + 1 < Len(NODE_ADDRESSES)
               THEN /\ Suspends("vagrant_remove_known_host")
                    /\ UNCHANGED <<pool, provision, proc, argv>>
               ELSE StartReturns(VagrantNodes, "vagrant")
    /\ OpsStep(ok)

\* LibcloudRunner.start_nodes: remove_known_host of the new node ended; the
\* node is appended to self.nodes and the loop goes on.
LibcloudRemoveKnownHostEnded(ok) ==
    /\ pc = "running" /\ awaiting = "remove_known_host"
    /\ UNCHANGED <<options, driver, runner, node_count, start_calls>>
    /\ IF ok
       THEN LibcloudLoop(index + 1, node_count, TrackNode(nodes, node, TRUE))
       ELSE /\ nodes' = TrackNode(nodes, node, FALSE)
            /\ UNCHANGED <<index, node, pool, provision, proc, argv>>
            /\ StartFails("ProcessError", runner, nodes', cloud)
    /\ OpsStep(ok)

\* Cluster workflow: the provisioning task of node i ended.  While the
\* workflow waits for the aggregate, the aggregate is recomputed; once the
\* aggregate has failed nothing waits for the remaining tasks, which still
\* run to their end.
ProvisionEnded(i, ok) ==
    /\ i \in DOMAIN provision /\ provision[i] = "running"
    /\ UNCHANGED <<options, driver, runner, node_count, start_calls, index,
                   node, nodes, pool, proc, argv>>
    /\ provision' = [provision EXCEPT ![i] = IF ok THEN "ok" ELSE "failed"]
    /\ IF pc = "running" /\ awaiting = "provision"
       THEN LET all == parallel(provision')
            IN /\ IF all = "failed"
                  THEN MainEnds(Raises("FirstError"), runner, nodes, cloud)
                  ELSE IF all = "ok"
                  THEN Suspends("configure_cluster") /\ UNCHANGED cloud
                  ELSE Suspends("provision") /\ UNCHANGED cloud
               /\ OpsStep(all # "failed")
       ELSE /\ UNCHANGED <<pc, awaiting, start_state, cloud, ops>>
            /\ UNCHANGED mainVars

\* Cluster workflow: configure_cluster ended; run_cluster_tests spawns trial.
ConfigureClusterEnded(ok) ==
    /\ pc = "running" /\ awaiting = "configure_cluster"
    /\ UNCHANGED <<options, driver, runner, node_count, start_calls, index, node, nodes,
                   pool, provision>>
    /\ IF ok
       THEN /\ proc' = [proc EXCEPT !["trial"] = Running]
            /\ argv' = [argv EXCEPT !["trial"] =
                           ClusterTrialCommand(options.trial_args)]
            /\ Suspends("trial")
            /\ UNCHANGED cloud
       ELSE /\ UNCHANGED <<proc, argv>>
            /\ MainEnds(Raises("RemoteError"), runner, nodes, cloud)
    /\ OpsStep(ok)

\* Cluster workflow: the trial process ended with outcome o.
TrialEnded(o) ==
    /\ pc = "running" /\ awaiting = "trial"
    /\ UNCHANGED <<options, driver, runner, node_count, start_calls, index, node, nodes,
                   pool, provision, argv>>
    /\ proc' = [proc EXCEPT !["trial"] = o]
    /\ MainEnds(addCallbacks(o), runner, nodes, cloud)
    /\ OpsStep(~addCallbacks(o).raised)

\* Client workflow: install_cli ended; run_client_tests starts both legs
\* and returns sequence([...]), which the workflow hands back as it is.
InstallCliEnded(ok) ==
    /\ pc = "running" /\ awaiting = "install_cli"
    /\ UNCHANGED <<options, driver, runner, node_count, start_calls, index, node, nodes,
                   pool, provision>>
    /\ IF ok
       THEN /\ proc' = [proc EXCEPT !["trial_cli"] = Running,
                                    !["client_installation_test"] = Running]
            /\ argv' = [argv EXCEPT
                           !["trial_cli"] =
                               ClientTrialCommand(options.trial_args),
                           !["client_installation_test"] =
                               <<"client_installation_test">>]
            /\ MainEnds(Returns(sequence(<<"trial_cli",
                                           "client_installation_test">>)),
                        runner, nodes, cloud)
       ELSE /\ UNCHANGED <<proc, argv>>
            /\ MainEnds(Raises("RemoteError"), runner, nodes, cloud)
    /\ OpsStep(ok)

\* A leg of run_client_tests ends with outcome o.  Nothing waits for the
\* legs: the workflow returned in the turn that spawned them and main is
\* over, so only the record of how the process ended changes.
LegEnded(p, o) ==
    /\ p \in {"trial_cli", "client_installation_test"}
    /\ proc[p] = Running
    /\ proc' = [proc EXCEPT ![p] = o]
    /\ UNCHANGED <<options, driver, pc, awaiting, runner, node_count, start_calls, index,
                   node, nodes, cloud, pool, provision, argv, ops, start_state,
                   workflow, result, stop_calls, destroy_log, stop_tasks, notice,
                   final>>

\* The `vagrant destroy -f` spawned by the k-th call of
\* VagrantRunner.stop_nodes ends.  stop_nodes returned the Deferred of that
\* command: main dropped it, so its failure reaches nobody; a caller that
\* called stop_nodes directly holds it, so its failure is the failure of
\* the call.
VagrantStopEnded(k, ok) ==
    /\ k \in DOMAIN stop_tasks /\ stop_tasks[k] = "running"
    /\ stop_tasks' = [stop_tasks EXCEPT ![k] = IF ok THEN "ok" ELSE "failed"]
    /\ final' = IF driver = "direct" /\ ~ok THEN Error("ProcessError")
                ELSE final
    /\ UNCHANGED <<options, driver, pc, awaiting, runner, node_count,
                   start_calls, index, node, nodes, cloud, pool, provision,
                   proc, argv, ops, start_state, workflow, result, stop_calls,
                   destroy_log, notice>>

Next ==
    \/ Main
    \/ \E ok \in BOOLEAN : VagrantDestroyEnded(ok)
    \/ \E ok \in BOOLEAN : VagrantUpEnded(ok)
    \/ \E ok \in BOOLEAN : VagrantRemoveKnownHostEnded(ok)
    \/ \E ok \in BOOLEAN : VagrantPullEnded(ok)
    \/ \E ok \in BOOLEAN : LibcloudRemoveKnownHostEnded(ok)
    \/ \E i \in 1..ClusterNodeCount, ok \in BOOLEAN : ProvisionEnded(i, ok)
    \/ \E ok \in BOOLEAN : ConfigureClusterEnded(ok)
    \/ \E o \in Outcomes : TrialEnded(o)
    \/ \E ok \in BOOLEAN : InstallCliEnded(ok)
    \/ \E p \in ProcNames, o \in Outcomes : LegEnded(p, o)
    \/ \E k \in 1..MaxStops, ok \in BOOLEAN : VagrantStopEnded(k, ok)

Spec == Init /\ [][Next]_vars

\* ------------------------------------------- the runner called directly
\* A constructed runner whose start_nodes and stop_nodes are called by a
\* caller other than main, with any node_count.  One valid command line per
\* provider: the options main reads play no part in the runner's methods.
InitRunner ==
    /\ options \in {o \in OptionInputs : postOptions(o) # "UsageError"
                                          /\ o.distribution = "centos-7"
                                          /\ o.stanza /\ ~o.variants
                                          /\ o.creator = <<"a", "1">>
                                          /\ o.type = "cluster" /\ ~o.keep
                                          /\ o.trial_args = <<>>}
    /\ driver = "direct"
    /\ pc = "init"
    /\ awaiting = "none"
    /\ runner = postOptions(options)
    /\ node_count = 0
    /\ start_calls = 0
    /\ index = 0
    /\ node = NoNode
    /\ nodes = <<>>
    /\ cloud = {}
    /\ pool = <<>>
    /\ provision = <<>>
    /\ proc = [p \in ProcNames |-> Idle]
    /\ argv = [p \in ProcNames |-> <<>>]
    /\ ops = [k \in OpKeys |-> "idle"]
    /\ start_state = "no"
    /\ workflow = Pending
    /\ result = Unset
    /\ stop_calls = 0
    /\ destroy_log = <<>>
    /\ stop_tasks = <<>>
    /\ notice = FALSE
    /\ final = NoFinal

\* runner.start_nodes(reactor, count) is called; the caller has waited for
\* the end of the call before.
StartNodes(count) ==
    /\ driver = "direct"
    /\ pc # "running"
    /\ start_calls < MaxStarts
    /\ UNCHANGED <<options, driver, runner>>
    /\ CallStartNodes(runner, count)
    /\ OpsStep(TRUE)

\* runner.stop_nodes(reactor) is called, before, during or after
\* start_nodes.  A destroy() of an instance that is already gone raises.
StopNodes ==
    /\ driver = "direct"
    /\ stop_calls < MaxStops
    /\ stop_calls' = stop_calls + 1
    /\ UNCHANGED <<options, driver, pc, awaiting, runner, node_count, start_calls, index,
                   node, nodes, pool, provision, proc, argv, ops, start_state,
                   workflow, result, notice>>
    /\ IF runner = "vagrant"
       THEN /\ stop_tasks' = Append(stop_tasks, "running")
            /\ UNCHANGED <<destroy_log, cloud, final>>
       ELSE \E failing \in SUBSET (1..Len(nodes)) :
               /\ \A i \in 1..Len(nodes) : nodes[i] \notin cloud => i \in failing
               /\ LET s == LibcloudStopNodes(nodes, failing)
                  IN /\ destroy_log' = destroy_log \o s.attempted
                     /\ cloud' = cloud \ s.destroyed
                     /\ UNCHANGED stop_tasks
                     /\ final' = IF s.raised THEN Error("DestroyError")
                                 ELSE final

NextRunner ==
    \/ \E count \in 0..MaxCount : StartNodes(count)
    \/ \E ok \in BOOLEAN : VagrantDestroyEnded(ok)
    \/ \E ok \in BOOLEAN : VagrantUpEnded(ok)
    \/ \E ok \in BOOLEAN : VagrantRemoveKnownHostEnded(ok)
    \/ \E ok \in BOOLEAN : VagrantPullEnded(ok)
    \/ \E ok \in BOOLEAN : LibcloudRemoveKnownHostEnded(ok)
    \/ StopNodes
    \/ \E k \in 1..MaxStops, ok \in BOOLEAN : VagrantStopEnded(k, ok)

SpecRunner == InitRunner /\ [][NextRunner]_vars

\* ---------------------------------------------------------------- claims
Range(q) == {q[i] : i \in DOMAIN q}
Ended == pc = "done" /\ runner # "none"
Failed == NotZero(result)
NothingRunning ==
    /\ \A i \in DOMAIN provision : provision[i] # "running"
    /\ \A p \in ProcNames : proc[p] # Running

\* C1: when the workflow has ended, a failed outcome with keep set means
\* stop_nodes was never invoked and the keep notice was printed; a failed
\* outcome without keep, or a successful outcome with or without keep, means
\* stop_nodes was invoked exactly once and no notice was printed.
C1_TeardownDecision ==
    Ended =>
        /\ (Failed /\ options.keep) => (stop_calls = 0 /\ notice)
        /\ (Failed /\ ~options.keep) => (stop_calls = 1 /\ ~notice)
        /\ ~Failed => (stop_calls = 1 /\ ~notice)

C1_Witness ==
    /\ Ended /\ options.keep /\ Failed /\ stop_calls = 0 /\ notice
    /\ proc["trial"] = Exit(2)

\* C2: when main has reached its terminal step after invoking teardown, the
\* teardown operation started by stop_nodes has completed (is not running).
C2_TeardownCompletesBeforeExit ==
    (pc = "done" /\ stop_calls > 0) =>
        \A k \in DOMAIN stop_tasks : stop_tasks[k] # "running"

\* C3: if the workflow raised, result is 1, the teardown decision was taken
\* with that status and main raises the original error; if the workflow
\* returned a status, main raises SystemExit with exactly that status.
C3_ErrorOutcome ==
    Ended =>
        /\ workflow.raised =>
              /\ result = IntValue(1)
              /\ final = Error(workflow.err)
              /\ stop_calls = (IF options.keep THEN 0 ELSE 1)
        /\ ~workflow.raised => final = SystemExit(workflow.value)

C3_Witness ==
    /\ Ended /\ workflow.raised /\ workflow.err = "FirstError"
    /\ final = Error("FirstError") /\ result = IntValue(1)

\* C4: whenever LibcloudRunner.start_nodes is not in progress, every
\* instance create_node has created is in the tracked list self.nodes.
C4_NoUntrackedInstance ==
    awaiting # "remove_known_host" => \A n \in cloud : n \in Range(nodes)

\* C5: a start_nodes call that returned has returned exactly node_count
\* nodes with non-empty, pairwise distinct addresses, and one that failed
\* has left LibcloudRunner's self.nodes empty.
C5_Original ==
    /\ start_state = "returned" =>
          /\ Len(pool) = node_count
          /\ \A i \in DOMAIN pool : Len(pool[i].address) > 0
          /\ \A i, j \in DOMAIN pool : pool[i].address = pool[j].address => i = j
    /\ (start_state = "failed" /\ runner = "libcloud") => nodes = <<>>

\* C6: one call of LibcloudRunner.stop_nodes attempts destroy on every
\* tracked node exactly once, in list order, whichever destroys fail, and
\* does not raise (main still ends the way the workflow decided).
C6_StopNodesExhaustive ==
    (Ended /\ runner = "libcloud" /\ stop_calls = 1) =>
        /\ destroy_log = nodes
        /\ final = (IF workflow.raised THEN Error(workflow.err)
                               ELSE SystemExit(workflow.value))

C6_Witness ==
    /\ Ended /\ runner = "libcloud" /\ stop_calls = 1
    /\ Len(nodes) = 2 /\ destroy_log = nodes
    /\ nodes[1] \in cloud /\ nodes[2] \notin cloud

\* C7: stop_nodes is never invoked, the workflow never returns and no later
\* workflow step starts while a provisioning task or a test process started
\* by an earlier phase is still running.
C7_PhaseBarrier ==
    /\ stop_calls > 0 => NothingRunning
    /\ (pc = "done" /\ ~workflow.raised) => NothingRunning
    /\ awaiting \in {"configure_cluster", "trial"} =>
          \A i \in DOMAIN provision : provision[i] # "running"

\* C8: when the parallel provision has reported failure, all per-node
\* provisioning tasks have run to completion (completed count = node count).
C8_SiblingsComplete ==
    (pc = "done" /\ workflow = Raises("FirstError")) =>
        /\ Len(provision) = node_count
        /\ \A i \in DOMAIN provision : provision[i] \in {"ok", "failed"}

\* C9: a test process ending with exit code N makes main end with
\* SystemExit(N) without an error, in the client workflow (remote step) as
\* in the cluster workflow (trial), and one terminated by a signal makes
\* main end with the raised error.
C9_ExitCodeOrError ==
    /\ \A n \in 1..MaxExit :
          (pc = "done" /\ proc["client_installation_test"] = Exit(n)) =>
              final = SystemExit(IntValue(n))
    /\ (pc = "done" /\ proc["client_installation_test"] = Signal) =>
          final.kind = "error"
    /\ \A n \in 1..MaxExit :
          (pc = "done" /\ proc["trial"] = Exit(n)) =>
              final = SystemExit(IntValue(n))
    /\ (pc = "done" /\ proc["trial"] = Signal) => final.kind = "error"

\* C10: main ends with SystemExit(1) on a configuration error, with
\* SystemExit(0) when the cluster workflow's trial succeeds, with
\* SystemExit(N) when trial exits with code N, and with the uncaught error
\* when the workflow raises.
C10_ExitStatus ==
    pc = "done" =>
        /\ runner = "none" => final = SystemExit(IntValue(1))
        /\ proc["trial"] = Done => final = SystemExit(IntValue(0))
        /\ \A n \in 1..MaxExit :
              proc["trial"] = Exit(n) => final = SystemExit(IntValue(n))
        /\ (runner # "none" /\ workflow.raised) => final.kind = "error"

C10_Witness ==
    /\ pc = "done" /\ options.type = "cluster"
    /\ proc["trial"] = Exit(MaxExit) /\ final = SystemExit(IntValue(MaxExit))

Op(name, i) == ops[<<name, i>>]
AllOpsIdle == \A k \in OpKeys : ops[k] = "idle"
VagrantIndexes == 0..(Len(NODE_ADDRESSES) - 1)

\* C11: in the client workflow the result handed to main is 0 only if both
\* legs exited 0, and it is a non-zero integer when a leg exits non-zero.
C11_ClientResult ==
    (pc = "done" /\ options.type = "client" /\ runner # "none"
       /\ ~workflow.raised) =>
        /\ result = IntValue(0) =>
              (proc["trial_cli"] = Done /\ proc["client_installation_test"] = Done)
        /\ (\E p \in {"trial_cli", "client_installation_test"} :
               proc[p].how = "exit") =>
              (result.kind = "int" /\ result.n # 0)

\* The configuration errors listed by C12.
ConfigError(o) ==
    \/ o.distribution = None
    \/ o.provider \notin {"vagrant", "rackspace"}
    \/ o.provider = "rackspace" /\ ~o.stanza
    \/ o.provider = "rackspace" /\ o.creator = NoCreator
    \/ o.provider = "rackspace"
         /\ \E i \in DOMAIN o.creator : o.creator[i] \notin AlnumChars
    \/ o.provider = "vagrant" /\ o.variants
    \/ o.provider = "vagrant" /\ o.distribution = OtherDistribution

\* C12: with a configuration error no runner is used: start_nodes,
\* create_node, stop_nodes and the workflow steps never run, and main ends
\* with SystemExit(1).
C12_ConfigErrorsAtStartup ==
    ConfigError(options) =>
        /\ runner = "none" /\ pc \in {"init", "done"}
        /\ start_state = "no" /\ AllOpsIdle /\ cloud = {} /\ nodes = <<>>
        /\ stop_calls = 0 /\ stop_tasks = <<>> /\ destroy_log = <<>>
        /\ \A p \in ProcNames : proc[p] = Idle
        /\ pc = "done" => final = SystemExit(IntValue(1))

C12_Witness ==
    /\ pc = "done" /\ options.provider = "rackspace" /\ options.stanza
    /\ options.distribution = "centos-7" /\ options.creator = <<"a", "-">>
    /\ final = SystemExit(IntValue(1)) /\ cloud = {}

\* C13: every call of VagrantRunner.start_nodes with a node_count other
\* than 2 fails with NotImplementedError in the call itself, and no operation
\* is started by it; a call of LibcloudRunner.start_nodes with a positive
\* node_count is not rejected: it goes on to create_node, and when it
\* returns it returns the tracked list, which holds at least node_count
\* nodes.
C13_NodeCount ==
    [][/\ (driver = "direct" /\ start_calls' = start_calls + 1) =>
            /\ (runner = "vagrant" /\ node_count' # VagrantNodeCount) =>
                  /\ start_state' = "failed"
                  /\ final' = Error("NotImplementedError")
                  /\ ops' = ops /\ awaiting' = "none" /\ pool' = <<>>
                  /\ stop_tasks' = stop_tasks /\ cloud' = cloud
            /\ (runner = "vagrant" /\ node_count' = VagrantNodeCount) =>
                  awaiting' = "vagrant_destroy"
            /\ (runner = "libcloud" /\ node_count' >= 1) =>
                  \/ awaiting' = "remove_known_host" /\ node' \in cloud'
                  \/ start_state' = "failed"
                        /\ final' = Error("CreateNodeError")
       /\ (driver = "direct" /\ runner = "libcloud"
             /\ start_state' = "returned") =>
            (pool' = nodes' /\ Len(pool') >= node_count')
      ]_vars

C13_Witness ==
    /\ driver = "direct" /\ runner = "libcloud" /\ node_count = MaxCount
    /\ start_state = "returned" /\ Len(pool) = MaxCount

C13_WitnessVagrant ==
    /\ driver = "direct" /\ runner = "vagrant" /\ node_count = 1
    /\ start_state = "failed"

\* C14: a call of stop_nodes made after an earlier one on the same runner,
\* also when every tracked instance is already gone, brings no error to its
\* caller: the call leaves the outcome and the tracked list as they were,
\* attempts every tracked node (LibcloudRunner) or spawns one more
\* `vagrant destroy -f` (VagrantRunner), and the end of that command, failed
\* or not, changes no outcome either.
C14_StopNodesIdempotent ==
    [][/\ (driver = "direct" /\ stop_calls >= 1
             /\ stop_calls' = stop_calls + 1) =>
            /\ final' = final /\ start_state' = start_state
            /\ nodes' = nodes /\ pool' = pool /\ pc' = pc
            /\ runner = "libcloud" =>
                  /\ destroy_log' = destroy_log \o nodes
                  /\ cloud' \subseteq cloud
                  /\ (cloud \ cloud') \subseteq Range(nodes)
            /\ runner = "vagrant" =>
                  stop_tasks' = Append(stop_tasks, "running")
       /\ \A k \in DOMAIN stop_tasks :
            (driver = "direct" /\ k >= 2 /\ stop_tasks'[k] # stop_tasks[k]) =>
                final' = final
      ]_vars

\* C15: in the cluster workflow a failed start_nodes means provision,
\* configure_cluster and trial never start; a failed provisioning task means
\* configure_cluster and trial never start; a failed configure_cluster means
\* trial never starts; in each case main has taken the teardown decision.
C15_ErrorsAbort ==
    LET startFailed == start_state = "failed"
        provisionFailed == \E i \in DOMAIN provision : provision[i] = "failed"
        configureFailed == Op("configure_cluster", 0) = "failed"
    IN options.type = "cluster" =>
        /\ startFailed =>
              /\ provision = <<>> /\ Op("provision", 0) = "idle"
              /\ Op("configure_cluster", 0) = "idle"
        /\ provisionFailed => Op("configure_cluster", 0) = "idle"
        /\ (startFailed \/ provisionFailed \/ configureFailed) =>
              /\ Op("trial", 0) = "idle" /\ proc["trial"] = Idle
              /\ pc = "done" /\ workflow.raised
              /\ stop_calls = (IF options.keep THEN 0 ELSE 1)

C15_Witness ==
    /\ options.type = "cluster" /\ pc = "done"
    /\ Op("configure_cluster", 0) = "failed" /\ proc["trial"] = Idle
    /\ stop_calls = 1

\* C16: each workflow runs trial on its default target when no selector is
\* given and on exactly the given selectors otherwise.
C16_Selectors ==
    /\ proc["trial"] # Idle =>
          argv["trial"] = <<"trial">> \o
              (IF options.trial_args = <<>> THEN <<"flocker.acceptance">>
               ELSE options.trial_args)
    /\ proc["trial_cli"] # Idle =>
          argv["trial_cli"] = <<"trial">> \o
              (IF options.trial_args = <<>> THEN <<"flocker.cli">>
               ELSE options.trial_args)

\* C17: whatever fails inside stop_nodes, main ends with the exit status or
\* the exception that the workflow's outcome alone determines.
C17_TeardownKeepsOutcome ==
    (Ended /\ stop_calls > 0) =>
        final = MainRaises(workflow, MainResult(workflow))

C17_Witness ==
    /\ Ended /\ runner = "libcloud" /\ stop_calls = 1 /\ Len(nodes) = 2
    /\ nodes[1] \in cloud /\ nodes[2] \in cloud
    /\ final = SystemExit(IntValue(0))

C17_WitnessVagrant ==
    /\ Ended /\ runner = "vagrant" /\ stop_tasks = <<"failed">>
    /\ final = SystemExit(IntValue(0))

\* C18: no remote login to an address before its known-host removal has
\* completed: for VagrantRunner the image pull on an address comes after
\* the removal for that address; for LibcloudRunner every node handed to
\* the workflow has had its removal completed.
C18_CleanupBeforeLogin ==
    /\ \A i \in VagrantIndexes :
          Op("pull_docker_images", i) # "idle" =>
              Op("vagrant_remove_known_host", i) = "ok"
    /\ runner = "libcloud" =>
          \A k \in DOMAIN pool : Op("remove_known_host", k - 1) = "ok"
    /\ (Op("install_cli", 0) # "idle" \/ Op("provision", 0) # "idle"
          \/ Op("configure_cluster", 0) # "idle") =>
          /\ start_state = "returned" /\ Len(pool) = node_count
          /\ runner = "vagrant" =>
                \A i \in VagrantIndexes :
                    Op("vagrant_remove_known_host", i) = "ok"

C18_Witness ==
    /\ runner = "vagrant" /\ Op("pull_docker_images", 1) = "ok"
    /\ Op("vagrant_remove_known_host", 1) = "ok"
    /\ Op("configure_cluster", 0) = "running"

\* C19: VagrantRunner.start_nodes(2) runs destroy, up and then, address by
\* address, known-host removal and image pull, each only after the one
\* before succeeded; a failed step stops the later ones and no nodes are
\* returned.
C19_VagrantSequence ==
    LET steps == <<<<"vagrant_destroy", 0>>, <<"vagrant_up", 0>>,
                   <<"vagrant_remove_known_host", 0>>,
                   <<"pull_docker_images", 0>>,
                   <<"vagrant_remove_known_host", 1>>,
                   <<"pull_docker_images", 1>>>>
    IN (runner = "vagrant" /\ node_count = VagrantNodeCount) =>
        /\ \A k \in 2..Len(steps) :
              ops[steps[k]] # "idle" => ops[steps[k - 1]] = "ok"
        /\ (\E k \in DOMAIN steps : ops[steps[k]] = "failed") =>
              (pool = <<>> /\ start_state = "failed")
        /\ start_state = "returned" =>
              /\ \A k \in DOMAIN steps : ops[steps[k]] = "ok"
              /\ pool = VagrantNodes

C19_Witness ==
    /\ runner = "vagrant" /\ Op("vagrant_destroy", 0) = "ok"
    /\ Op("vagrant_up", 0) = "failed" /\ pool = <<>>
    /\ Op("vagrant_remove_known_host", 0) = "idle"

\* C20: with the vagrant runner and run type client, start_nodes rejects the
\* single node asked for: no step runs, the result is 1, and stop_nodes is
\* still invoked unless keep is set.
C20_VagrantClient ==
    (runner = "vagrant" /\ options.type = "client") =>
        /\ pc = "done" /\ node_count = ClientNodeCount
        /\ workflow = Raises("NotImplementedError")
        /\ result = IntValue(1) /\ final = Error("NotImplementedError")
        /\ AllOpsIdle /\ pool = <<>>
        /\ \A p \in ProcNames : proc[p] = Idle
        /\ stop_calls = (IF options.keep THEN 0 ELSE 1)
        /\ ~options.keep => stop_tasks # <<>>

C20_Witness ==
    /\ runner = "vagrant" /\ options.type = "client" /\ ~options.keep
    /\ pc = "done" /\ stop_calls = 1 /\ stop_tasks = <<"running">>
====
